---- MODULE Spec2Model ----
(***************************************************************************)
(* Model of typeclasses/characters.py (BaseCharacter, Character) and of    *)
(* typeclasses/objects.py (ConsumableObject).                              *)
(*                                                                         *)
(* The stored attributes (self.db.x) are the state.  Every read of a       *)
(* resource goes through the property getter `self.db.x or default`, every *)
(* write through the setter, exactly as in the source: Python's `v or d`   *)
(* yields d when v is 0.                                                   *)
(***************************************************************************)
EXTENDS Integers, FiniteSets, Sequences, TLC

VARIABLES
    db,        \* db[c]: the stored attributes of character c (self.db)
    location,  \* the room both characters stand in: allow_death, allow_pvp
    defeated,  \* defeated[c]: at_defeat ran for c, no heal / restore since
    call,      \* the last stat call: arguments, values before, what it invoked
    loot,      \* the last at_do_loot call
    items,     \* items[i]: a ConsumableObject and how often it was used
    combat,    \* combat.ref[c]: c.ndb.combat is set; combat.participants
    equipment, \* the player's EquipmentHandler: slots and backpack
    contents,  \* the objects located inside the player
    move,      \* the last object move into or out of the player
    spent,     \* a spend call or a setter has touched a stamina or mana pool
    steps      \* calls made so far, where a specification bounds them

gear == <<equipment, contents, move>>

vars == <<db, location, defeated, call, loot, items, combat, gear, spent, steps>>

----------------------------------------------------------------------------
(* Bounds of the model *)

MaxDamage == 3    \* damage arguments are 0..MaxDamage
MaxHeal   == 3    \* heal arguments are 0..MaxHeal
MaxSpend  == 2    \* spend arguments are 1..MaxSpend
MaxDebt   == 2    \* at_damage is explored while the stored hp >= -MaxDebt
MaxCoins  == 4    \* coin balances are explored in 0..MaxCoins
MaxUses   == 3    \* consumables are created with 1..MaxUses uses
MaxCalls  == 5    \* at_post_use is explored up to MaxCalls calls per item
MaxStat   == 2    \* strength and will are set within 0..MaxStat
MaxSlots  == 2    \* the inventory slots the player's equipment can hold
MaxSteps  == 3    \* calls per behaviour where a specification counts them

----------------------------------------------------------------------------
(* The objects *)

Chars == {"mob", "pc"}        \* "mob": a BaseCharacter, "pc": a Character
Items == {"potion", "ration"}
Gear  == {"sword", "shield", "torch", "rope"}   \* objects that can be carried

is_pc(c) == c = "pc"

Min(a, b) == IF a < b THEN a ELSE b
Max(a, b) == IF a > b THEN a ELSE b

\* Python's `v or d` on integers: 0 is falsy
Or(v, d) == IF v = 0 THEN d ELSE v

\* BaseCharacter.at_object_creation
BaseCharacter_at_object_creation ==
    [hp |-> 1, hp_max |-> 1, mana |-> 1, mana_max |-> 1,
     stamina |-> 1, stamina_max |-> 1, strength |-> 1, will |-> 1]

\* Character.at_object_creation: super(), then the player defaults
Character_at_object_creation ==
    [hp |-> 10, hp_max |-> 10, mana |-> 10, mana_max |-> 10,
     stamina |-> 4, stamina_max |-> 4, coins |-> 0]
    @@ BaseCharacter_at_object_creation

\* The mob is a non-player BaseCharacter that carries a currency balance
\* (BaseCharacter.at_pay reads self.coins; BaseCharacter itself sets none)
Mob_at_object_creation ==
    [coins |-> 0] @@ BaseCharacter_at_object_creation

----------------------------------------------------------------------------
(* Property getters; d is a value of db *)

hp(d, c)          == Or(d[c].hp, 1)
hp_max(d, c)      == Or(d[c].hp_max, 1)
mana(d, c)        == Or(d[c].mana, 1)
mana_max(d, c)    == Or(d[c].mana_max, 1)
stamina(d, c)     == Or(d[c].stamina, 1)
stamina_max(d, c) == Or(d[c].stamina_max, 1)
strength(d, c)    == Or(d[c].strength, 1)
will(d, c)        == Or(d[c].will, 1)

\* Character.coins
coins(d, c) == Or(d[c].coins, 0)

----------------------------------------------------------------------------
(* hurt_level: percent = max(0, min(100, 100 * (hp / hp_max))).  percent   *)
(* is kept as the fraction percent_num / hp_max (hp_max is positive), so   *)
(* `a < percent` is a * hp_max < percent_num.  For every hp_max up to 200  *)
(* the float evaluation of the source compares with each band edge exactly *)
(* as the fraction does.                                                   *)

percent_num(d, c) == Max(0, Min(100 * hp_max(d, c), 100 * hp(d, c)))

hurt_level(d, c) ==
    LET p == percent_num(d, c)
        m == hp_max(d, c)
    IN  IF 95 * m < p /\ p <= 100 * m THEN "Perfect"
        ELSE IF 80 * m < p /\ p <= 95 * m THEN "Scraped"
        ELSE IF 60 * m < p /\ p <= 80 * m THEN "Bruised"
        ELSE IF 45 * m < p /\ p <= 60 * m THEN "Hurt"
        ELSE IF 30 * m < p /\ p <= 45 * m THEN "Wounded"
        ELSE IF 15 * m < p /\ p <= 30 * m THEN "Badly wounded"
        ELSE IF 1 * m < p /\ p <= 15 * m THEN "Barely hanging on"
        ELSE IF p = 0 THEN "Collapsed!"
        ELSE "None"

----------------------------------------------------------------------------
(* Defeat and death.  These operators return a record                      *)
(*   [db, combat, at_defeat, at_death, roll_death]                         *)
(* of the new stored attributes, the combat session and the number of      *)
(* times each hook ran.                                                    *)

Outcome(d) == [db |-> d, combat |-> combat,
               at_defeat |-> 0, at_death |-> 0, roll_death |-> 0]

\* c is a participant of the combat session its combat property refers to
InCombat(c) == combat.ref[c] /\ c \in combat.participants

\* CombatHandler.remove(character): the session drops the participant
combat_remove(cb, c) == [cb EXCEPT !.participants = @ \ {c}]

\* rules.dice.roll_death(character): the death table lives in world.rules;
\* here only the invocation is recorded
roll_death(o, c) == [o EXCEPT !.roll_death = @ + 1]

\* BaseCharacter.at_death
BaseCharacter_at_death(o, c) ==
    [o EXCEPT !.at_death = @ + 1,
              !.combat = IF o.combat.ref[c] THEN combat_remove(@, c) ELSE @]

\* Character.at_death: the message only
Character_at_death(o, c) == [o EXCEPT !.at_death = @ + 1]

at_death(o, c) ==
    IF is_pc(c) THEN Character_at_death(o, c) ELSE BaseCharacter_at_death(o, c)

\* BaseCharacter.at_defeat: by default, defeat means death
BaseCharacter_at_defeat(o, c) ==
    BaseCharacter_at_death([o EXCEPT !.at_defeat = @ + 1], c)

\* Character.at_defeat
Character_at_defeat(o, c) ==
    LET o1 == [o EXCEPT !.at_defeat = @ + 1]
    IN  IF location.allow_death
        THEN roll_death(o1, c)
        ELSE [o1 EXCEPT !.db[c].hp = hp_max(o1.db, c)]

at_defeat(o, c) ==
    IF is_pc(c) THEN Character_at_defeat(o, c) ELSE BaseCharacter_at_defeat(o, c)

\* BaseCharacter.at_damage
at_damage(d, c, damage) ==
    LET d1 == [d EXCEPT ![c].hp = hp(d, c) - damage]
    IN  IF hp(d1, c) <= 0 THEN at_defeat(Outcome(d1), c) ELSE Outcome(d1)

\* BaseCharacter.heal: the amount healed
healed(d, c, amount) == Min(hp_max(d, c) - hp(d, c), amount)

\* BaseCharacter.heal: the stored attributes afterwards
heal(d, c, amount) == [d EXCEPT ![c].hp = hp(d, c) + healed(d, c, amount)]

\* BaseCharacter.spend_stamina / spend_mana
spend_stamina(d, c, amount) == [d EXCEPT ![c].stamina = stamina(d, c) - amount]
spend_mana(d, c, amount)    == [d EXCEPT ![c].mana = mana(d, c) - amount]

\* at_recovery without the cap at the maximum
at_recovery_uncapped(d, c) ==
    LET d1 == [d EXCEPT ![c].stamina = stamina(d, c) + strength(d, c)]
    IN  [d1 EXCEPT ![c].mana = mana(d1, c) + will(d1, c)]

\* BaseCharacter.at_recovery
at_recovery(d, c) ==
    LET d1 == [d EXCEPT ![c].stamina = stamina(d, c) + strength(d, c)]
        d2 == IF stamina(d1, c) > stamina_max(d1, c)
              THEN [d1 EXCEPT ![c].stamina = stamina_max(d1, c)]
              ELSE d1
        d3 == [d2 EXCEPT ![c].mana = mana(d2, c) + will(d2, c)]
    IN  IF mana(d3, c) > mana_max(d3, c)
        THEN [d3 EXCEPT ![c].mana = mana_max(d3, c)]
        ELSE d3

----------------------------------------------------------------------------
(* Looting.  at_pay and at_looted return the new stored attributes and the *)
(* amount paid / stolen.                                                   *)

\* rules.dice.roll("1d10")
Roll1d10 == 1..10

\* at_pay without the cap at the payer's balance
at_pay_uncapped(d, c, amount) ==
    [db |-> [d EXCEPT ![c].coins = coins(d, c) - amount], amount |-> amount]

\* BaseCharacter.at_pay
at_pay(d, c, amount) ==
    LET paid == Min(amount, coins(d, c))
    IN  [db |-> [d EXCEPT ![c].coins = coins(d, c) - paid], amount |-> paid]

\* BaseCharacter.at_looted
BaseCharacter_at_looted(d, self, looter, max_steal) ==
    LET paid == at_pay(d, self, max_steal)
    IN  [db |-> [paid.db EXCEPT ![looter].coins = coins(paid.db, looter) + paid.amount],
         stolen |-> paid.amount]

\* a Character that is looted like any other living thing
Character_at_looted_inherited(d, self, looter, max_steal) ==
    BaseCharacter_at_looted(d, self, looter, max_steal)

\* Character.at_looted: pass
Character_at_looted(d, self, looter, max_steal) == [db |-> d, stolen |-> 0]

at_looted(d, self, looter, max_steal) ==
    IF is_pc(self) THEN Character_at_looted(d, self, looter, max_steal)
                   ELSE BaseCharacter_at_looted(d, self, looter, max_steal)

\* BaseCharacter.pre_loot: pass, so the call yields Python's None
pre_loot(self, defeated_enemy) == "None"

\* Character.at_pre_loot
at_pre_loot(self) == IF location.allow_pvp THEN "False" ELSE "True"

\* BaseCharacter.at_do_loot
at_do_loot(d, self, defeated_enemy, max_steal) ==
    at_looted(d, defeated_enemy, self, max_steal)

----------------------------------------------------------------------------
(* ConsumableObject; it is a value of items[i] *)

\* ConsumableObject.uses
uses(it) == Or(it.uses, 1)

\* DefaultObject.delete, as far as the item is concerned
delete(it) == [it EXCEPT !.deleted = TRUE, !.deletes = @ + 1]

\* ConsumableObject.at_post_use
at_post_use(it) ==
    LET it1 == [it EXCEPT !.uses = uses(it) - 1]
    IN  IF uses(it1) <= 0 THEN delete(it1) ELSE it1

\* ConsumableObject.at_object_creation
ConsumableObject_at_object_creation ==
    [uses |-> 1, deleted |-> FALSE, deletes |-> 0, created |-> 1, post_use |-> 0]

----------------------------------------------------------------------------
(* Equipment of the player.  e is a value of equipment:                    *)
(*   e.slots[l]  the object wielded or worn at wield-location l, or "none" *)
(*   e.backpack  the objects stored loose                                  *)

\* WieldLocation of the objects: WeaponObject, Shield, and plain Objects
inventory_use_slot(obj) ==
    CASE obj = "sword"  -> "WEAPON_HAND"
      [] obj = "shield" -> "SHIELD_HAND"
      [] OTHER          -> "BACKPACK"

\* Object.size as set by Object.at_object_creation
size(obj) == 1

WieldSlots == {"WEAPON_HAND", "SHIELD_HAND"}

NoEquipment == [slots |-> [l \in WieldSlots |-> "none"], backpack |-> {}]

\* EquipmentHandler: the slots in use
count_slots(e) ==
    Cardinality({l \in WieldSlots : e.slots[l] # "none"}) + Cardinality(e.backpack)

\* EquipmentHandler.validate_slot_usage: "this will raise EquipmentError if
\* inventory is full"
validate_slot_usage(e, obj) ==
    IF count_slots(e) + size(obj) > MaxSlots THEN "EquipmentError" ELSE "True"

\* EquipmentHandler.add: at the object's wield-location when that is free,
\* in the backpack otherwise; fails on an object that does not fit
equipment_add(e, obj) ==
    LET l == inventory_use_slot(obj)
    IN  IF validate_slot_usage(e, obj) = "EquipmentError"
        THEN [equipment |-> e, raised |-> TRUE]
        ELSE IF l \in WieldSlots /\ e.slots[l] = "none"
        THEN [equipment |-> [e EXCEPT !.slots[l] = obj], raised |-> FALSE]
        ELSE [equipment |-> [e EXCEPT !.backpack = @ \cup {obj}], raised |-> FALSE]

\* EquipmentHandler.remove: out of every wield-location and of the backpack
equipment_remove(e, obj) ==
    [slots |-> [l \in WieldSlots |-> IF e.slots[l] = obj THEN "none" ELSE e.slots[l]],
     backpack |-> e.backpack \ {obj}]

\* Character.at_pre_object_receive: what the hook returns, or the exception
\* that leaves it
at_pre_object_receive(e, moved_object) == validate_slot_usage(e, moved_object)

\* Character.at_object_receive: try equipment.add, log an EquipmentError
at_object_receive(e, moved_object) ==
    LET r == equipment_add(e, moved_object)
    IN  [equipment |-> r.equipment, logged |-> r.raised, raised |-> FALSE]

\* Character.at_pre_object_leave
at_pre_object_leave(e, leaving_object) == "True"

\* at_object_leave that leaves the equipment alone
at_object_leave_skipped(e, moved_object) == e

\* Character.at_object_leave
at_object_leave(e, moved_object) == equipment_remove(e, moved_object)

Wielded(e, obj) == \E l \in WieldSlots : e.slots[l] = obj

NoMove == [op |-> "none", obj |-> "none", pre |-> "none", raised |-> FALSE,
           logged |-> FALSE, done |-> FALSE, was_wielded |-> FALSE,
           was_full |-> FALSE]

----------------------------------------------------------------------------
(* The state *)

NoCall == [op |-> "none", self |-> "none", arg |-> 0,
           hp_before |-> 0, hp_set |-> 0,
           stamina_before |-> 0, mana_before |-> 0,
           was_defeated |-> FALSE, healed |-> 0,
           at_defeat |-> 0, at_death |-> 0, roll_death |-> 0,
           in_combat |-> FALSE]

NoLoot == [op |-> "none", looter |-> "none", victim |-> "none", roll |-> 0,
           stolen |-> 0, looter_before |-> 0, victim_before |-> 0,
           pre_loot |-> "None", at_pre_loot |-> "None"]

Init ==
    /\ db = [c \in Chars |-> IF is_pc(c) THEN Character_at_object_creation
                                         ELSE Mob_at_object_creation]
    /\ location \in [allow_death : BOOLEAN, allow_pvp : BOOLEAN]
    /\ defeated = [c \in Chars |-> FALSE]
    /\ call = NoCall
    /\ loot = NoLoot
    /\ items = [i \in Items |-> ConsumableObject_at_object_creation]
    /\ combat = [ref |-> [c \in Chars |-> FALSE], participants |-> {}]
    /\ equipment = NoEquipment
    /\ contents = {}
    /\ move = NoMove
    /\ spent = FALSE
    /\ steps = 0

----------------------------------------------------------------------------
(* Stat calls *)

AtDamage(c, damage) ==
    LET o == at_damage(db, c, damage)
    IN  /\ db[c].hp >= -MaxDebt
        /\ db' = o.db
        /\ defeated' = [defeated EXCEPT ![c] =
                IF o.at_defeat > 0
                THEN o.db[c].hp # hp_max(o.db, c)     \* FALSE after a yield
                ELSE @]
        /\ call' = [NoCall EXCEPT !.op = "at_damage", !.self = c, !.arg = damage,
                        !.hp_before = db[c].hp,
                        !.hp_set = hp(db, c) - damage,
                        !.was_defeated = defeated[c],
                        !.at_defeat = o.at_defeat, !.at_death = o.at_death,
                        !.roll_death = o.roll_death,
                        !.in_combat = InCombat(c)]
        /\ combat' = o.combat
        /\ UNCHANGED <<location, loot, items, gear, spent>>

Heal(c, amount) ==
    /\ db' = heal(db, c, amount)
    /\ defeated' = [defeated EXCEPT ![c] = FALSE]
    /\ call' = [NoCall EXCEPT !.op = "heal", !.self = c, !.arg = amount,
                    !.hp_before = db[c].hp,
                    !.healed = healed(db, c, amount)]
    /\ UNCHANGED <<location, loot, items, combat, gear, spent>>

AtRecovery(c) ==
    /\ db' = at_recovery(db, c)
    /\ call' = [NoCall EXCEPT !.op = "at_recovery", !.self = c,
                    !.stamina_before = db[c].stamina,
                    !.mana_before = db[c].mana]
    /\ UNCHANGED <<location, defeated, loot, items, combat, gear, spent>>

\* the callers spend only what the pool holds
SpendStamina(c, amount) ==
    /\ amount <= stamina(db, c)
    /\ db' = spend_stamina(db, c, amount)
    /\ call' = [NoCall EXCEPT !.op = "spend_stamina", !.self = c, !.arg = amount,
                    !.stamina_before = db[c].stamina]
    /\ spent' = TRUE
    /\ UNCHANGED <<location, defeated, loot, items, combat, gear>>

SpendMana(c, amount) ==
    /\ amount <= mana(db, c)
    /\ db' = spend_mana(db, c, amount)
    /\ call' = [NoCall EXCEPT !.op = "spend_mana", !.self = c, !.arg = amount,
                    !.mana_before = db[c].mana]
    /\ spent' = TRUE
    /\ UNCHANGED <<location, defeated, loot, items, combat, gear>>

Next ==
    \/ \E c \in Chars, damage \in 0..MaxDamage : AtDamage(c, damage) /\ UNCHANGED steps
    \/ \E c \in Chars, amount \in 0..MaxHeal : Heal(c, amount) /\ UNCHANGED steps
    \/ \E c \in Chars : AtRecovery(c) /\ UNCHANGED steps

\* damage, healing and the recovery tick
Spec == Init /\ [][Next]_vars

NextPools ==
    \/ \E c \in Chars : AtRecovery(c) /\ UNCHANGED steps
    \/ \E c \in Chars, amount \in 1..MaxSpend : SpendStamina(c, amount) /\ UNCHANGED steps
    \/ \E c \in Chars, amount \in 1..MaxSpend : SpendMana(c, amount) /\ UNCHANGED steps

\* spending stamina and mana, and the recovery tick
SpecPools == Init /\ [][NextPools]_vars

----------------------------------------------------------------------------
(* Coins and looting *)

\* the coins setter
SetCoins(c, value) ==
    /\ db' = [db EXCEPT ![c].coins = value]
    /\ loot' = NoLoot
    /\ UNCHANGED <<location, defeated, call, items, combat, gear, spent>>

\* looter.at_do_loot(victim).  The record keeps what the two pre-loot hooks
\* answer in this state; at_pre_loot exists on a Character victim only.
AtDoLoot(looter, victim, roll) ==
    LET r == at_do_loot(db, looter, victim, roll)
    IN  /\ looter # victim
        /\ coins(r.db, looter) <= MaxCoins
        /\ db' = r.db
        /\ loot' = [op |-> "at_do_loot", looter |-> looter, victim |-> victim,
                    roll |-> roll, stolen |-> r.stolen,
                    looter_before |-> coins(db, looter),
                    victim_before |-> coins(db, victim),
                    pre_loot |-> pre_loot(looter, victim),
                    at_pre_loot |-> IF is_pc(victim) THEN at_pre_loot(victim)
                                                     ELSE "None"]
        /\ UNCHANGED <<location, defeated, call, items, combat, gear, spent>>

NextLoot ==
    \/ \E c \in Chars, value \in 0..MaxCoins : SetCoins(c, value) /\ UNCHANGED steps
    \/ \E looter \in Chars, victim \in Chars, roll \in Roll1d10 :
            AtDoLoot(looter, victim, roll) /\ UNCHANGED steps

\* coin balances and looting
SpecLoot == Init /\ [][NextLoot]_vars

----------------------------------------------------------------------------
(* Consumables *)

\* a consumable created with uses = n: at_object_creation, then the setter
CreateWithUses(i, n) ==
    /\ items[i].post_use = 0
    /\ items' = [items EXCEPT ![i].uses = n, ![i].created = n]
    /\ UNCHANGED <<db, location, defeated, call, loot, combat, gear, spent>>

AtPostUse(i) ==
    /\ ~ items[i].deleted
    /\ items[i].post_use < MaxCalls
    /\ items' = [items EXCEPT ![i] = [at_post_use(@) EXCEPT !.post_use = @ + 1]]
    /\ UNCHANGED <<db, location, defeated, call, loot, combat, gear, spent>>

NextUse ==
    \/ \E i \in Items, n \in 1..MaxUses : CreateWithUses(i, n) /\ UNCHANGED steps
    \/ \E i \in Items : AtPostUse(i) /\ UNCHANGED steps

\* consumables and their uses
SpecUse == Init /\ [][NextUse]_vars

----------------------------------------------------------------------------
(* Combat sessions and death *)

\* a combat session takes the character in and sets its combat property
JoinCombat(c) ==
    /\ ~ InCombat(c)
    /\ combat' = [combat EXCEPT !.ref[c] = TRUE, !.participants = @ \cup {c}]
    /\ call' = NoCall
    /\ UNCHANGED <<db, location, defeated, loot, items, gear, spent>>

\* at_death is called on a character whose hp is spent
AtDeath(c) ==
    LET o == at_death(Outcome(db), c)
    IN  /\ db[c].hp <= 0
        /\ combat' = o.combat
        /\ call' = [NoCall EXCEPT !.op = "at_death", !.self = c,
                        !.hp_before = db[c].hp,
                        !.at_death = o.at_death,
                        !.in_combat = InCombat(c)]
        /\ UNCHANGED <<db, location, defeated, loot, items, gear, spent>>

NextCombat ==
    \/ \E c \in Chars : JoinCombat(c) /\ UNCHANGED steps
    \/ \E c \in Chars, damage \in 0..MaxDamage : AtDamage(c, damage) /\ UNCHANGED steps
    \/ \E c \in Chars : AtDeath(c) /\ UNCHANGED steps

\* combat sessions, damage and death
SpecCombat == Init /\ [][NextCombat]_vars

----------------------------------------------------------------------------
(* Objects moving into and out of the player *)

\* An object is moved into the player.  With validated, the move runs
\* at_pre_object_receive first and stops when the hook refuses or raises;
\* without, the object arrives with at_object_receive as the only hook.
Receive(obj, validated) ==
    LET pre  == IF validated THEN at_pre_object_receive(equipment, obj) ELSE "none"
        r    == at_object_receive(equipment, obj)
        base == [NoMove EXCEPT !.op = "receive", !.obj = obj, !.pre = pre,
                     !.was_full = (count_slots(equipment) + size(obj) > MaxSlots)]
    IN  /\ obj \notin contents
        /\ IF pre = "EquipmentError"
           THEN /\ move' = [base EXCEPT !.raised = TRUE]
                /\ UNCHANGED <<equipment, contents>>
           ELSE IF pre = "False"
           THEN /\ move' = base
                /\ UNCHANGED <<equipment, contents>>
           ELSE /\ equipment' = r.equipment
                /\ contents' = contents \cup {obj}
                /\ move' = [base EXCEPT !.raised = r.raised, !.logged = r.logged,
                                        !.done = TRUE]
        /\ UNCHANGED <<db, location, defeated, call, loot, items, combat, spent>>

\* An object leaves the player: at_pre_object_leave, then at_object_leave
Leave(obj) ==
    LET pre  == at_pre_object_leave(equipment, obj)
        base == [NoMove EXCEPT !.op = "leave", !.obj = obj, !.pre = pre,
                     !.was_wielded = Wielded(equipment, obj)]
    IN  /\ obj \in contents
        /\ IF pre = "True"
           THEN /\ equipment' = at_object_leave(equipment, obj)
                /\ contents' = contents \ {obj}
                /\ move' = [base EXCEPT !.done = TRUE]
           ELSE /\ move' = base
                /\ UNCHANGED <<equipment, contents>>
        /\ UNCHANGED <<db, location, defeated, call, loot, items, combat, spent>>

NextGear ==
    \/ \E obj \in Gear, validated \in BOOLEAN : Receive(obj, validated) /\ UNCHANGED steps
    \/ \E obj \in Gear : Leave(obj) /\ UNCHANGED steps

\* the player's inventory
SpecGear == Init /\ [][NextGear]_vars

----------------------------------------------------------------------------
(* Property setters, and behaviours of a bounded number of calls *)

Tick == steps < MaxSteps /\ steps' = steps + 1

\* the strength and will setters
SetStrength(c, value) ==
    /\ db' = [db EXCEPT ![c].strength = value]
    /\ call' = [NoCall EXCEPT !.op = "set_strength", !.self = c, !.arg = value]
    /\ UNCHANGED <<location, defeated, loot, items, combat, gear, spent>>

SetWill(c, value) ==
    /\ db' = [db EXCEPT ![c].will = value]
    /\ call' = [NoCall EXCEPT !.op = "set_will", !.self = c, !.arg = value]
    /\ UNCHANGED <<location, defeated, loot, items, combat, gear, spent>>

\* the hp, stamina and mana setters
SetHp(c, value) ==
    /\ db' = [db EXCEPT ![c].hp = value]
    /\ defeated' = [defeated EXCEPT ![c] = IF value > 0 THEN FALSE ELSE @]
    /\ call' = [NoCall EXCEPT !.op = "set_hp", !.self = c, !.arg = value,
                    !.hp_before = db[c].hp]
    /\ UNCHANGED <<location, loot, items, combat, gear, spent>>

SetStamina(c, value) ==
    /\ db' = [db EXCEPT ![c].stamina = value]
    /\ call' = [NoCall EXCEPT !.op = "set_stamina", !.self = c, !.arg = value,
                    !.stamina_before = db[c].stamina]
    /\ spent' = TRUE
    /\ UNCHANGED <<location, defeated, loot, items, combat, gear>>

SetMana(c, value) ==
    /\ db' = [db EXCEPT ![c].mana = value]
    /\ call' = [NoCall EXCEPT !.op = "set_mana", !.self = c, !.arg = value,
                    !.mana_before = db[c].mana]
    /\ spent' = TRUE
    /\ UNCHANGED <<location, defeated, loot, items, combat, gear>>

\* the uses setter of a consumable
SetUses(i, value) ==
    /\ ~ items[i].deleted
    /\ items' = [items EXCEPT ![i].uses = value]
    /\ call' = [NoCall EXCEPT !.op = "set_uses", !.self = i, !.arg = value]
    /\ UNCHANGED <<db, location, defeated, loot, combat, gear, spent>>

NextRecovery ==
    \/ \E c \in Chars, damage \in 0..MaxDamage : Tick /\ AtDamage(c, damage)
    \/ \E c \in Chars, amount \in 0..MaxHeal : Tick /\ Heal(c, amount)
    \/ \E c \in Chars : Tick /\ AtRecovery(c)
    \/ \E c \in Chars, amount \in 1..MaxSpend : Tick /\ SpendStamina(c, amount)
    \/ \E c \in Chars, amount \in 1..MaxSpend : Tick /\ SpendMana(c, amount)
    \/ \E c \in Chars, value \in 0..MaxStat : Tick /\ SetStrength(c, value)
    \/ \E c \in Chars, value \in 0..MaxStat : Tick /\ SetWill(c, value)
    \/ \E c \in Chars : \E value \in {-1, stamina_max(db, c) + 1} :
            Tick /\ SetStamina(c, value)
    \/ \E c \in Chars : \E value \in {-1, mana_max(db, c) + 1} :
            Tick /\ SetMana(c, value)

\* every stat call, in behaviours of at most MaxSteps calls
SpecRecovery == Init /\ [][NextRecovery]_vars

NextRoundTrip ==
    \/ \E c \in Chars : \E value \in 0..hp_max(db, c) : Tick /\ SetHp(c, value)
    \/ \E c \in Chars : \E value \in 0..stamina_max(db, c) : Tick /\ SetStamina(c, value)
    \/ \E c \in Chars : \E value \in 0..mana_max(db, c) : Tick /\ SetMana(c, value)
    \/ \E i \in Items, value \in 0..MaxUses : Tick /\ SetUses(i, value)

\* writes through the property setters, in behaviours of at most MaxSteps calls
SpecRoundTrip == Init /\ [][NextRoundTrip]_vars

----------------------------------------------------------------------------
(* Properties *)

\* C1: for every character the stored hp stays within 0..hp_max under any
\* sequence of at_damage, heal and at_recovery calls.
C1_HpWithinBounds ==
    \A c \in Chars : 0 <= db[c].hp /\ db[c].hp <= hp_max(db, c)

\* C2: whenever the hp that at_damage stores is <= 0 (in particular when the
\* damage equals a positive hp), at_defeat is invoked during that call.
C2_DefeatAtZero ==
    (call.op = "at_damage" /\ call.hp_set <= 0) => call.at_defeat >= 1

\* C3: at_damage on a character that is already defeated, and was not healed
\* or restored since, does not invoke at_defeat again.
C3_DefeatOnce ==
    (call.op = "at_damage" /\ call.was_defeated) => call.at_defeat = 0

\* C4: a player Character whose hp at_damage drives to 0 or below ends the
\* call at hp_max without a death roll where death is forbidden, and with
\* exactly one death roll and hp not restored where death is allowed.
C4_YieldOrDeathRoll ==
    (call.op = "at_damage" /\ is_pc(call.self) /\ call.hp_set <= 0) =>
        IF location.allow_death
        THEN call.roll_death = 1 /\ db[call.self].hp # hp_max(db, call.self)
        ELSE call.roll_death = 0 /\ db[call.self].hp = hp_max(db, call.self)

\* C5: heal(amount) on 0 <= hp_before <= hp_max reports
\* healed = min(hp_max - hp_before, amount) and leaves hp = hp_before + healed.
C5_HealAmount ==
    (/\ call.op = "heal"
     /\ 0 <= call.hp_before
     /\ call.hp_before <= hp_max(db, call.self)) =>
        /\ call.healed = Min(hp_max(db, call.self) - call.hp_before, call.arg)
        /\ db[call.self].hp = call.hp_before + call.healed
        /\ db[call.self].hp <= hp_max(db, call.self)

\* C6: one at_recovery() on stamina s and mana m within their pools leaves
\* stamina = min(s + strength, stamina_max) and mana = min(m + will, mana_max).
C6_RecoveryAmount ==
    LET c == call.self
        s == call.stamina_before
        m == call.mana_before
    IN  (/\ call.op = "at_recovery"
         /\ 0 <= s /\ s <= db[c].stamina_max
         /\ 0 <= m /\ m <= db[c].mana_max) =>
            /\ db[c].stamina = Min(s + db[c].strength, db[c].stamina_max)
            /\ db[c].mana = Min(m + db[c].will, db[c].mana_max)

\* what a loot of `amount` coins leaves behind
LootMoved(amount) ==
    /\ loot.stolen = amount
    /\ db[loot.victim].coins = loot.victim_before - amount
    /\ db[loot.looter].coins = loot.looter_before + amount
    /\ db[loot.victim].coins >= 0
    /\ db[loot.looter].coins >= 0
    /\ db[loot.victim].coins + db[loot.looter].coins
            = loot.victim_before + loot.looter_before

BandLabel(h, m) ==
    IF h = 0 THEN "Collapsed!"
    ELSE IF 100 * h <= 15 * m THEN "Barely hanging on"
    ELSE IF 100 * h <= 30 * m THEN "Badly wounded"
    ELSE IF 100 * h <= 45 * m THEN "Wounded"
    ELSE IF 100 * h <= 60 * m THEN "Hurt"
    ELSE IF 100 * h <= 80 * m THEN "Bruised"
    ELSE IF 100 * h <= 95 * m THEN "Scraped"
    ELSE "Perfect"

\* C9: for 0 <= hp <= hp_max, hp_max >= 1, hurt_level is the label of the
\* band  0, (0,15], (15,30], (30,45], (45,60], (60,80], (80,95], (95,100]
\* that holds 100 * hp / hp_max; it is never missing.
C9_HurtLevelBands ==
    \A c \in Chars :
        (db[c].hp_max >= 1 /\ 0 <= db[c].hp /\ db[c].hp <= db[c].hp_max) =>
            hurt_level(db, c) = BandLabel(db[c].hp, db[c].hp_max)

\* C10: a consumable created with n uses is deleted by its n-th at_post_use,
\* exactly once and not earlier, and is never used more than n times.
C10_DeletedAfterUses ==
    \A i \in Items :
        /\ items[i].post_use <= items[i].created
        /\ items[i].post_use < items[i].created =>
                ~ items[i].deleted /\ items[i].deletes = 0
        /\ items[i].post_use = items[i].created =>
                items[i].deleted /\ items[i].deletes = 1 /\ items[i].uses = 0

\* C11: a character whose at_death runs while it is a participant of a combat
\* session is no longer a participant afterwards, player or not.
C11_DeathLeavesCombat ==
    (call.at_death >= 1 /\ call.in_combat) =>
        call.self \notin combat.participants

C13_ReceiveNeverRaises ==
    move.op = "receive" =>
        /\ ~ move.raised
        /\ (move.pre # "none" /\ move.was_full) =>
                move.pre = "False" /\ ~ move.done
\* C14: after every at_recovery() the stamina and mana of the character are
\* at most their maxima, whatever they were before; and as long as no pool
\* was spent or set, 0 <= stamina <= stamina_max and 0 <= mana <= mana_max
\* hold for every character under at_recovery, at_damage and heal.
C14_PoolsWithinBounds ==
    /\ call.op = "at_recovery" =>
            /\ db[call.self].stamina <= db[call.self].stamina_max
            /\ db[call.self].mana <= db[call.self].mana_max
    /\ ~ spent =>
            \A c \in Chars :
                /\ 0 <= db[c].stamina /\ db[c].stamina <= db[c].stamina_max
                /\ 0 <= db[c].mana /\ db[c].mana <= db[c].mana_max

\* C14 witness: a recovery tick on an emptied stamina pool.
C14_Witness ==
    /\ call.op = "at_recovery"
    /\ spent
    /\ call.stamina_before = 0
    /\ db[call.self].stamina > 0
    /\ db[call.self].stamina <= db[call.self].stamina_max

\* C15: a value v within 0..maximum written to hp, stamina, mana or uses is
\* the value the same property reads back.
C15_WriteThenRead ==
    /\ call.op = "set_hp" => hp(db, call.self) = call.arg
    /\ call.op = "set_stamina" => stamina(db, call.self) = call.arg
    /\ call.op = "set_mana" => mana(db, call.self) = call.arg
    /\ call.op = "set_uses" => uses(items[call.self]) = call.arg

====
